---- MODULE Spec2Model ----
(***************************************************************************)
(* A model of the elevator simulation: the Elevator state machine and the  *)
(* ElevatorBank controller of models/elevator.py and the Person process of *)
(* agents/person.py.                                                       *)
(*                                                                         *)
(* A Floor is identified by its level (Building.add_floor numbers floors   *)
(* 1, 2, ... in insertion order), and a bank or an elevator is constructed *)
(* over the whole floor tuple of its building, so valid_floors[i - 1] is   *)
(* the floor of level i.  A Python value that may be None is a record      *)
(* [t, v]: PyInt(i) or PyNone.                                             *)
(***************************************************************************)
EXTENDS Integers, Sequences, FiniteSets, TLC

VARIABLES building, nfloors, elev, wait_list_up, wait_list_down, person, ran, now, last

vars == <<building, nfloors, elev, wait_list_up, wait_list_down, person, ran, now, last>>

(*************************** bounds of the model ***************************)
MaxFloors == 3
MaxCapacity == 2
NumPersons == 3
NumBanks == 2
\* the bank API: people who wait, floors of the bank
WaitFloors == 2
\* the dispatch: elevators of the bank, floors of the bank
MaxElevators == 2
DispatchFloors == 5
TieFloors == 2
\* the simulation: floors of the building, people who travel, trips of one
\* person
SimFloors == 3
NumTravellers == 2
MaxTrips == 2
\* the end-to-end scenario: the last instant of the clock
MaxTime == 3
\* the building: Floor objects, add_floor calls
MaxFloorObjects == 3
MaxAdds == 4
\* Elevator.__init__: kwargs.get("capacity", 10)
DefaultCapacity == 10

Persons == 1..NumPersons
Banks == 1..NumBanks
Floors == 1..nfloors

(***************************** Python values *******************************)
PyNone == [t |-> "none", v |-> 0]
PyInt(i) == [t |-> "int", v |-> i]
\* bool(x) of an int or None
Truthy(x) == x.t = "int" /\ x.v # 0
Abs(i) == IF i < 0 THEN -i ELSE i
Min(a, b) == IF a < b THEN a ELSE b
Max(a, b) == IF a > b THEN a ELSE b

\* the errors the code raises, by exception class and message
NoError == "none"
DoorsClosedEnter == "RuntimeError: Unable to enter elevator, doors are closed"
DoorsClosedExit == "RuntimeError: Unable to exit elevator, doors are closed"
CapacityExceeded == "RuntimeError: Unable to enter elevator, would exceed capacity"
KeyErrorRaised == "KeyError"
InvalidDirection == "ValueError: Not a valid direction"
InvalidDirectionValue == "ValueError: Direction must be one of the following values"
InvalidFloor == "ValueError: Floor does not exist in the list of valid floors"
NotAStop == "ValueError: Floor cannot be removed because it is not a stop"
NoneHasNoAddStop == "AttributeError: 'NoneType' object has no attribute 'add_stop'"

(**************************** Building and Floor ***************************)
\* A Building is its list of floors (Floor objects, by identity) and the
\* level each Floor object holds.
\* Building.add_floor, the argument being a Floor
add_floor_zero_based(b, floor) ==
  [floors |-> Append(b.floors, floor),
   level |-> [b.level EXCEPT ![floor] = PyInt(Len(b.floors))]]
add_floor(b, floor) ==
  [floors |-> Append(b.floors, floor),
   level |-> [b.level EXCEPT ![floor] = PyInt(Len(b.floors) + 1)]]

\* the building the other components are constructed over: n Floor objects,
\* added one after the other
RECURSIVE Built(_)
Built(n) ==
  IF n = 0 THEN [floors |-> <<>>, level |-> <<>>]
  ELSE LET b == Built(n - 1)
       IN add_floor([b EXCEPT !.level = Append(b.level, PyNone)], n)

\* Floor.distance(other) and Floor.direction(other): |level difference| and
\* the sign of (other.level - level)
FloorDistance(a, b) == Abs(a - b)
FloorDirection(a, b) == IF b > a THEN 1 ELSE IF b < a THEN -1 ELSE 0

(******************************** Elevator *********************************)
\* Elevator.__init__: no stops, direction None, no passengers, doors closed
NewElevator(bank, capacity, starting_location) ==
  [bank |-> bank, capacity |-> capacity, location |-> starting_location,
   direction |-> PyNone, stops |-> {}, passengers |-> {}, doors_open |-> FALSE]

full_at_capacity_plus_one(e) == Cardinality(e.passengers) > e.capacity
full(e) == Cardinality(e.passengers) >= e.capacity

distance(e, floor) == FloorDistance(e.location, floor)

next_location_without_clamp(e) ==
  IF ~Truthy(e.direction)
  THEN e.location
  ELSE e.location + e.direction.v

next_location(e) ==
  IF ~Truthy(e.direction)
  THEN e.location
  ELSE Min(Max(1, e.location + e.direction.v), nfloors)

moving_away(e, floor) ==
  FloorDistance(next_location(e), floor) > FloorDistance(e.location, floor)

\* list(self.stops)[0] is any element of the stop set: the callers range
\* `first` over FirstStops(e)
FirstStops(e) == IF e.stops = {} THEN {e.location} ELSE e.stops

next_direction_without_boundary_override(e, first) ==
  IF ~Truthy(e.direction)
  THEN IF e.stops = {} \/ e.location \in e.stops THEN 0
       ELSE IF distance(e, first) > 0 THEN 1 ELSE -1
  ELSE IF ~(\A floor \in e.stops : moving_away(e, floor))
       THEN e.direction.v
       ELSE -1 * e.direction.v

next_direction_checks_top_first(e, first) ==
  IF e.location = nfloors THEN -1
  ELSE IF e.location = 1 THEN 1
  ELSE IF ~Truthy(e.direction)
  THEN IF e.stops = {} \/ e.location \in e.stops THEN 0
       ELSE IF distance(e, first) > 0 THEN 1 ELSE -1
  ELSE IF ~(\A floor \in e.stops : moving_away(e, floor))
       THEN e.direction.v
       ELSE -1 * e.direction.v

next_direction_reverses_for_any_stop_behind(e, first) ==
  IF e.location = 1 THEN 1
  ELSE IF e.location = nfloors THEN -1
  ELSE IF ~Truthy(e.direction)
  THEN IF e.stops = {} \/ e.location \in e.stops THEN 0
       ELSE IF distance(e, first) > 0 THEN 1 ELSE -1
  ELSE IF ~(\E floor \in e.stops : moving_away(e, floor))
       THEN e.direction.v
       ELSE -1 * e.direction.v

next_direction_idles_without_stops(e, first) ==
  IF e.location = 1 THEN 1
  ELSE IF e.location = nfloors THEN -1
  ELSE IF ~Truthy(e.direction)
  THEN IF e.stops = {} \/ e.location \in e.stops THEN 0
       ELSE IF distance(e, first) > 0 THEN 1 ELSE -1
  ELSE IF e.stops = {} THEN 0
  ELSE IF ~(\A floor \in e.stops : moving_away(e, floor))
       THEN e.direction.v
       ELSE -1 * e.direction.v

next_direction_always_reverses(e, first) ==
  IF e.location = 1 THEN 1
  ELSE IF e.location = nfloors THEN -1
  ELSE IF ~Truthy(e.direction)
  THEN IF e.stops = {} \/ e.location \in e.stops THEN 0
       ELSE IF distance(e, first) > 0 THEN 1 ELSE -1
  ELSE -1 * e.direction.v

next_direction(e, first) ==
  IF e.location = 1 THEN 1
  ELSE IF e.location = nfloors THEN -1
  ELSE IF ~Truthy(e.direction)
  THEN IF e.stops = {} \/ e.location \in e.stops THEN 0
       ELSE IF distance(e, first) > 0 THEN 1 ELSE -1
  ELSE IF ~(\A floor \in e.stops : moving_away(e, floor))
       THEN e.direction.v
       ELSE -1 * e.direction.v

\* Each operation returns the elevator after the call and the error raised.
Ok(e) == [e |-> e, err |-> NoError]
Raise(e, err) == [e |-> e, err |-> err]

open_doors(e) == Ok([e EXCEPT !.doors_open = TRUE])
close_doors(e) == Ok([e EXCEPT !.doors_open = FALSE])

enter_without_door_check(e, p) ==
  IF full(e) THEN Raise(e, CapacityExceeded)
  ELSE Ok([e EXCEPT !.passengers = @ \cup {p}])
enter(e, p) ==
  IF e.doors_open
  THEN IF full(e) THEN Raise(e, CapacityExceeded)
       ELSE Ok([e EXCEPT !.passengers = @ \cup {p}])
  ELSE Raise(e, DoorsClosedEnter)

exit(e, p) ==
  IF e.doors_open
  THEN IF p \in e.passengers
       THEN Ok([e EXCEPT !.passengers = @ \ {p}])
       ELSE Raise(e, KeyErrorRaised)
  ELSE Raise(e, DoorsClosedExit)

ValidDirections == {PyInt(1), PyInt(-1), PyInt(0), PyNone}
set_direction(e, value) ==
  IF value \notin ValidDirections THEN Raise(e, InvalidDirectionValue)
  ELSE Ok([e EXCEPT !.direction = value])

set_location(e, floor) == Ok([e EXCEPT !.location = floor])

add_stop_without_floor_check(e, floor) == Ok([e EXCEPT !.stops = @ \cup {floor}])
add_stop(e, floor) ==
  IF floor \in Floors THEN Ok([e EXCEPT !.stops = @ \cup {floor}])
  ELSE Raise(e, InvalidFloor)

remove_stop(e, floor) ==
  IF floor \in e.stops THEN Ok([e EXCEPT !.stops = @ \ {floor}])
  ELSE Raise(e, NotAStop)

(****************************** ElevatorBank *******************************)
\* ElevatorBank.elevators: the elevators the bank owns (its add_elevator
\* created them)
elevators(b) == {i \in DOMAIN elev : elev[i].bank = b}

\* tuple(self.__elevators) lists a Python set: any order of its elements
Orders(S) ==
  {order \in [1..Cardinality(S) -> S] :
     \A i, j \in 1..Cardinality(S) : i # j => order[i] # order[j]}

suitability_negative_when_leaving(e, floor_count, floor, direction) ==
  IF moving_away(e, floor) /\ distance(e, floor) # 0
  THEN -1
  ELSE IF e.direction = direction \/ ~Truthy(e.direction)
       THEN floor_count + 2 - distance(e, floor)
       ELSE floor_count + 1 - distance(e, floor)

suitability(e, floor_count, floor, direction) ==
  IF moving_away(e, floor) /\ distance(e, floor) # 0
  THEN 1
  ELSE IF e.direction = direction \/ ~Truthy(e.direction)
       THEN floor_count + 2 - distance(e, floor)
       ELSE floor_count + 1 - distance(e, floor)

\* the test that replaces the best elevator found so far
replaces_unconditionally(s, best_suitability) == TRUE
replaces_on_a_tie(s, best_suitability) == s >= best_suitability
replaces(s, best_suitability) == s > best_suitability

NoElevator == 0
NoResult == [elevator |-> NoElevator, suitability |-> -1]

\* elevator_list holds the elevators themselves, in the order scanned; ids
\* names them in the same order
RECURSIVE dispatch_scan(_, _, _, _, _, _, _)
dispatch_scan(elevator_list, ids, i, floor_count, floor, direction, result) ==
  IF i > Len(elevator_list) THEN result
  ELSE LET s == suitability(elevator_list[i], floor_count, floor, direction)
       IN dispatch_scan(elevator_list, ids, i + 1, floor_count, floor, direction,
                        IF replaces(s, result.suitability)
                        THEN [elevator |-> ids[i], suitability |-> s]
                        ELSE result)

nearest_elevator_dispatch_strategy(elevator_list, ids, floor_count, floor, direction) ==
  dispatch_scan(elevator_list, ids, 1, floor_count, floor, direction, NoResult).elevator

\* The state the bank's methods work on (the elevators and the two wait
\* lists of every bank), and what a call leaves behind: that state, the
\* value returned and the error raised.
BankResult(el, up, down, result, err) ==
  [elev |-> el, up |-> up, down |-> down, result |-> result, err |-> err]
BankState == BankResult(elev, wait_list_up, wait_list_down, NoElevator, NoError)

call_to_returns_none_silently(bk, ids, floor, direction) ==
  LET elevator == nearest_elevator_dispatch_strategy(
                    [i \in DOMAIN ids |-> bk.elev[ids[i]]], ids, nfloors, floor, direction)
  IN IF elevator = NoElevator
     THEN BankResult(bk.elev, bk.up, bk.down, NoElevator, NoError)
     ELSE LET r == add_stop(bk.elev[elevator], floor)
          IN BankResult([bk.elev EXCEPT ![elevator] = r.e], bk.up, bk.down,
                        IF r.err = NoError THEN elevator ELSE NoElevator, r.err)

call_to_stops_every_elevator(bk, ids, floor, direction) ==
  LET elevator == nearest_elevator_dispatch_strategy(
                    [i \in DOMAIN ids |-> bk.elev[ids[i]]], ids, nfloors, floor, direction)
  IN IF elevator = NoElevator
     THEN BankResult(bk.elev, bk.up, bk.down, NoElevator, NoneHasNoAddStop)
     ELSE BankResult([e \in DOMAIN bk.elev |->
                        IF \E i \in DOMAIN ids : ids[i] = e
                        THEN add_stop(bk.elev[e], floor).e ELSE bk.elev[e]],
                     bk.up, bk.down, elevator, NoError)

\* ids is self.elevators in the order the tuple lists them
call_to(bk, ids, floor, direction) ==
  LET elevator == nearest_elevator_dispatch_strategy(
                    [i \in DOMAIN ids |-> bk.elev[ids[i]]], ids, nfloors, floor, direction)
  IN IF elevator = NoElevator
     THEN BankResult(bk.elev, bk.up, bk.down, NoElevator, NoneHasNoAddStop)
     ELSE LET r == add_stop(bk.elev[elevator], floor)
          IN BankResult([bk.elev EXCEPT ![elevator] = r.e], bk.up, bk.down,
                        IF r.err = NoError THEN elevator ELSE NoElevator, r.err)

\* ElevatorBank.__wait_set: the list the direction selects, or the error
wait_set_of_unit_directions(direction) ==
  IF direction = PyInt(1) THEN "up"
  ELSE IF direction = PyInt(-1) THEN "down"
  ELSE InvalidDirection
wait_set(direction) ==
  IF ~Truthy(direction) THEN InvalidDirection
  ELSE IF direction.v > 0 THEN "up"
  ELSE IF direction.v < 0 THEN "down"
  ELSE InvalidDirection

wait(bk, b, p, floor, direction) ==
  LET which == wait_set(direction)
  IN IF which = "up"
     THEN BankResult(bk.elev, [bk.up EXCEPT ![b][floor] = @ \cup {p}], bk.down,
                     NoElevator, NoError)
     ELSE IF which = "down"
     THEN BankResult(bk.elev, bk.up, [bk.down EXCEPT ![b][floor] = @ \cup {p}],
                     NoElevator, NoError)
     ELSE BankResult(bk.elev, bk.up, bk.down, NoElevator, which)

\* set.remove raises KeyError when the person is not in the set
stop_waiting(bk, b, p, floor, direction) ==
  LET which == wait_set(direction)
  IN IF which = "up"
     THEN IF p \in bk.up[b][floor]
          THEN BankResult(bk.elev, [bk.up EXCEPT ![b][floor] = @ \ {p}], bk.down,
                          NoElevator, NoError)
          ELSE BankResult(bk.elev, bk.up, bk.down, NoElevator, KeyErrorRaised)
     ELSE IF which = "down"
     THEN IF p \in bk.down[b][floor]
          THEN BankResult(bk.elev, bk.up, [bk.down EXCEPT ![b][floor] = @ \ {p}],
                          NoElevator, NoError)
          ELSE BankResult(bk.elev, bk.up, bk.down, NoElevator, KeyErrorRaised)
     ELSE BankResult(bk.elev, bk.up, bk.down, NoElevator, which)

waiting_passengers(b, floor, direction) ==
  IF wait_set(direction) = "up" THEN wait_list_up[b][floor]
  ELSE IF wait_set(direction) = "down" THEN wait_list_down[b][floor]
  ELSE {}

(************************* the record of the last call *********************)
Called(op, elevator, bank, p, floor, direction, err) ==
  [op |-> op, elevator |-> elevator, bank |-> bank, person |-> p,
   floor |-> floor, direction |-> direction, err |-> err]
NoCall == Called("none", NoElevator, 0, 0, 0, PyNone, NoError)

\* A Person and the locals of its run(): where the process stands (pc), the
\* ElevatorTrip of the cycle (start, end, direction, distance,
\* elevator_arrived_secs, travel_secs; it is the trip handed to
\* trip_complete until the next cycle builds a new one), the bank left in
\* the loop variable `agent`, the elevator taken from the door-open event,
\* the event delivered and not yet consumed, the number of trip_complete
\* calls, the error that ended the process.
NoFloor == 0
NoBank == 0
NoSecs == -1
PersonRecord(pc, strategy, location) ==
  [pc |-> pc, strategy |-> strategy, location |-> location,
   start |-> NoFloor, end |-> NoFloor, direction |-> 0, distance |-> 0,
   elevator_arrived_secs |-> NoSecs, travel_secs |-> NoSecs,
   agent |-> NoBank, elevator_agent |-> NoElevator, event |-> NoElevator,
   trips |-> 0, err |-> NoError]
\* a Person model object whose process does not run
NoPerson == PersonRecord("absent", "none", NoFloor)

EmptyWaitLists == [b \in Banks |-> [floor \in Floors |-> {}]]

(************************ the Elevator through its API *********************)
\* One elevator, driven by any sequence of calls of its public methods.
ElevatorId == 1

InitElevator ==
  /\ nfloors \in 1..MaxFloors
  /\ \E capacity \in 0..MaxCapacity, start \in 1..nfloors :
       elev = <<NewElevator(1, capacity, start)>>
  /\ wait_list_up = EmptyWaitLists
  /\ wait_list_down = EmptyWaitLists
  /\ person = [p \in Persons |-> NoPerson]
  /\ building = Built(nfloors)
  /\ ran = {}
  /\ now = 0
  /\ last = NoCall

ElevatorCall(op, r, p, floor, direction) ==
  /\ elev' = [elev EXCEPT ![ElevatorId] = r.e]
  /\ last' = Called(op, ElevatorId, 0, p, floor, direction, r.err)
  /\ UNCHANGED <<building, nfloors, wait_list_up, wait_list_down, person, ran, now>>

OpenDoors == ElevatorCall("open_doors", open_doors(elev[ElevatorId]), 0, 0, PyNone)
CloseDoors == ElevatorCall("close_doors", close_doors(elev[ElevatorId]), 0, 0, PyNone)
Enter == \E p \in Persons : ElevatorCall("enter", enter(elev[ElevatorId], p), p, 0, PyNone)
Exit == \E p \in Persons : ElevatorCall("exit", exit(elev[ElevatorId], p), p, 0, PyNone)
SetDirection ==
  \E value \in ValidDirections \cup {PyInt(2)} :
    ElevatorCall("direction", set_direction(elev[ElevatorId], value), 0, 0, value)
SetLocation ==
  \E floor \in Floors :
    ElevatorCall("location", set_location(elev[ElevatorId], floor), 0, floor, PyNone)
AddStop ==
  \E floor \in 1..(nfloors + 1) :
    ElevatorCall("add_stop", add_stop(elev[ElevatorId], floor), 0, floor, PyNone)
RemoveStop ==
  \E floor \in Floors :
    ElevatorCall("remove_stop", remove_stop(elev[ElevatorId], floor), 0, floor, PyNone)

NextElevator ==
  \/ OpenDoors
  \/ CloseDoors
  \/ Enter
  \/ Exit
  \/ SetDirection
  \/ SetLocation
  \/ AddStop
  \/ RemoveStop

SpecElevator == InitElevator /\ [][NextElevator]_vars

(********************** the ElevatorBank through its API *******************)
\* A bank of WaitFloors floors at most and any sequence of wait and
\* stop_waiting calls one person makes on it.
WaitBank == 1
Waiter == 1
DirectionInputs == {PyNone, PyInt(0), PyInt(1), PyInt(-1), PyInt(2), PyInt(-3)}

InitWait ==
  /\ nfloors \in 1..WaitFloors
  /\ elev = <<>>
  /\ wait_list_up = EmptyWaitLists
  /\ wait_list_down = EmptyWaitLists
  /\ person = [p \in Persons |-> NoPerson]
  /\ building = Built(nfloors)
  /\ ran = {}
  /\ now = 0
  /\ last = NoCall

BankCall(op, r, b, p, floor, direction) ==
  /\ elev' = r.elev
  /\ wait_list_up' = r.up
  /\ wait_list_down' = r.down
  /\ last' = Called(op, r.result, b, p, floor, direction, r.err)
  /\ UNCHANGED <<building, nfloors, person, ran, now>>

Wait ==
  \E floor \in Floors, direction \in DirectionInputs :
    BankCall("wait", wait(BankState, WaitBank, Waiter, floor, direction),
             WaitBank, Waiter, floor, direction)

StopWaiting ==
  \E floor \in Floors, direction \in DirectionInputs :
    BankCall("stop_waiting", stop_waiting(BankState, WaitBank, Waiter, floor, direction),
             WaitBank, Waiter, floor, direction)

NextWait ==
  \/ Wait
  \/ StopWaiting

SpecWait == InitWait /\ [][NextWait]_vars

\* A bank whose elevators stand anywhere and travel in any direction (as
\* add_elevator(starting_location=...) and the direction setter leave them),
\* with no stop or with the stop at floor 1 an earlier call left them; a
\* second bank that owns no elevator; a person who waits at floor 1 of the
\* first bank and at the top floor of the second; and one call_to.
BankWith(floor_limit, elevator_limit) ==
  /\ nfloors \in 1..floor_limit
  /\ \E n \in 0..elevator_limit :
       \E location \in [1..n -> Floors], direction \in [1..n -> ValidDirections],
          stops \in SUBSET {1} :
         elev = [i \in 1..n |->
                   [NewElevator(1, DefaultCapacity, location[i])
                      EXCEPT !.direction = direction[i], !.stops = stops]]
  /\ wait_list_up = [EmptyWaitLists EXCEPT ![1][1] = {1}]
  /\ wait_list_down = [EmptyWaitLists EXCEPT ![2][nfloors] = {1}]
  /\ person = [p \in Persons |-> NoPerson]
  /\ building = Built(nfloors)
  /\ ran = {}
  /\ now = 0
  /\ last = NoCall

InitDispatch == BankWith(DispatchFloors, MaxElevators)

CallTo ==
  /\ last.op = "none"
  /\ \E b \in Banks, floor \in Floors, direction \in {PyInt(1), PyInt(-1)} :
       \E ids \in Orders(elevators(b)) :
         BankCall("call_to", call_to(BankState, ids, floor, direction),
                  b, 0, floor, direction)

NextDispatch == CallTo

SpecDispatch == InitDispatch /\ [][NextDispatch]_vars

\* the same, for the banks of few floors, where the elevators often score
\* the same
InitTie == BankWith(TieFloors, MaxElevators)

SpecTie == InitTie /\ [][NextDispatch]_vars

(***************************** the simulation ******************************)
\* call_strategy_all / call_strategy_random: the banks a person calls, in
\* order
call_strategy_all == {[i \in 1..NumBanks |-> i]}
call_strategy_random == {<<b>> : b \in Banks}
call_strategy(name) == IF name = "all" THEN call_strategy_all ELSE call_strategy_random

\* Person.run, the loop `for agent in elevator_banks: agent.wait(...);
\* agent.call_to(...)`: it stops at the first call that raises.  scan[b] is
\* the order in which bank b lists its elevators.
RECURSIVE call_banks(_, _, _, _, _, _, _)
call_banks(bk, elevator_banks, i, p, floor, direction, scan) ==
  IF i > Len(elevator_banks) THEN bk
  ELSE LET agent == elevator_banks[i]
           waited == wait(bk, agent, p, floor, direction)
       IN IF waited.err # NoError THEN waited
          ELSE LET called == call_to(waited, scan[agent], floor, direction)
               IN IF called.err # NoError THEN called
                  ELSE call_banks(called, elevator_banks, i + 1, p, floor, direction, scan)

Scans == {scan \in [Banks -> UNION {Orders(elevators(b)) : b \in Banks}] :
            \A b \in Banks : scan[b] \in Orders(elevators(b))}

\* the bank `agent` names after the loop: the last one of the tuple
loop_variable_after(elevator_banks) == elevator_banks[Len(elevator_banks)]

Failed(pr, err) == [pr EXCEPT !.pc = "failed", !.err = err, !.event = NoElevator]

\* One bank per entry of Banks, each owning one elevator that starts at the
\* first floor; every traveller's process is about to start.
InitSim ==
  /\ nfloors = SimFloors
  /\ \E capacity \in 1..MaxCapacity :
       elev = [b \in Banks |-> NewElevator(b, capacity, 1)]
  /\ wait_list_up = EmptyWaitLists
  /\ wait_list_down = EmptyWaitLists
  /\ \E strategy \in {"all", "random"} :
       person = [p \in Persons |->
                   IF p <= NumTravellers THEN PersonRecord("start", strategy, NoFloor)
                   ELSE NoPerson]
  /\ building = Built(nfloors)
  /\ ran = {}
  /\ now = 0
  /\ last = NoCall

\* run(), up to the loop: self.location = self.simulation.building.floors[0]
PersonStart(p) ==
  /\ person[p].pc = "start"
  /\ person' = [person EXCEPT ![p].pc = "loop", ![p].location = 1]
  /\ UNCHANGED <<building, nfloors, elev, wait_list_up, wait_list_down, ran, now, last>>

\* schedule.next_event returns None: the process ends
PersonDone(p) ==
  /\ person[p].pc = "loop"
  /\ person' = [person EXCEPT ![p].pc = "done"]
  /\ UNCHANGED <<building, nfloors, elev, wait_list_up, wait_list_down, ran, now, last>>

\* schedule.next_event returned an event for the floor target and its time
\* has come: the person builds the trip, registers with and calls each bank
\* of elevator_banks (what its call strategy returned), and suspends on its
\* elevator_door_open event
PersonCallTo(p, target, elevator_banks) ==
  /\ person[p].pc = "loop"
  /\ \E scan \in Scans :
       LET start == person[p].location
           direction == FloorDirection(start, target)
           r == call_banks(BankState, elevator_banks, 1, p, start, PyInt(direction), scan)
           trip == [person[p] EXCEPT !.start = start, !.end = target,
                                     !.direction = direction,
                                     !.distance = FloorDistance(start, target),
                                     !.elevator_arrived_secs = NoSecs,
                                     !.travel_secs = NoSecs,
                                     !.agent = loop_variable_after(elevator_banks)]
       IN /\ elev' = r.elev
          /\ wait_list_up' = r.up
          /\ wait_list_down' = r.down
          /\ person' = [person EXCEPT ![p] =
                          IF r.err # NoError THEN Failed(trip, r.err)
                          ELSE [trip EXCEPT !.pc = "await_open"]]
  /\ UNCHANGED <<building, nfloors, ran, now, last>>

\* a schedule of at most MaxTrips events, for any floors
PersonCall(p) ==
  /\ person[p].trips < MaxTrips
  /\ \E target \in Floors, elevator_banks \in call_strategy(person[p].strategy) :
       PersonCallTo(p, target, elevator_banks)

\* the end of a trip: elevator_agent.exit(self), trip.travel_secs,
\* self.location = trip.end_location, trip_complete(trip), and back to the
\* top of the loop
alight(bk, pr, p) ==
  LET left == exit(bk.elev[pr.elevator_agent], p)
  IN IF left.err # NoError
     THEN [bk |-> bk, person |-> Failed(pr, left.err)]
     ELSE [bk |-> [bk EXCEPT !.elev[pr.elevator_agent] = left.e],
           person |-> [pr EXCEPT !.pc = "loop", !.location = pr.end,
                                 !.travel_secs = now - pr.elevator_arrived_secs,
                                 !.trips = @ + 1, !.agent = NoBank,
                                 !.elevator_agent = NoElevator, !.event = NoElevator]]

ride_until_any_signal(bk, pr, p) == alight(bk, pr, p)

\* `while elevator_agent.location != trip.end_location: yield ...`, entered
\* with the event consumed
ride(bk, pr, p) ==
  IF bk.elev[pr.elevator_agent].location # pr.end
  THEN [bk |-> bk, person |-> [pr EXCEPT !.pc = "await_arrive", !.event = NoElevator]]
  ELSE alight(bk, pr, p)

\* resumed by the door-open event: agent.stop_waiting, elevator_agent.enter,
\* elevator_agent.add_stop, then the ride
board(bk, pr, p) ==
  LET elevator_agent == pr.event
      woken == [pr EXCEPT !.elevator_agent = elevator_agent, !.event = NoElevator]
      stopped == stop_waiting(bk, pr.agent, p, pr.start, PyInt(pr.direction))
  IN IF stopped.err # NoError
     THEN [bk |-> bk, person |-> Failed(woken, stopped.err)]
     ELSE LET aboard == [woken EXCEPT !.elevator_arrived_secs = now]
              entered == enter(stopped.elev[elevator_agent], p)
          IN IF entered.err # NoError
             THEN [bk |-> stopped, person |-> Failed(aboard, entered.err)]
             ELSE LET added == add_stop(entered.e, pr.end)
                  IN IF added.err # NoError
                     THEN [bk |-> [stopped EXCEPT !.elev[elevator_agent] = entered.e],
                           person |-> Failed(aboard, added.err)]
                     ELSE ride([stopped EXCEPT !.elev[elevator_agent] = added.e],
                               aboard, p)

\* An event is processed at the instant it is triggered, and a step of an
\* elevator's process takes time: while an event is pending time stands
\* still, and in one instant each elevator's process runs at most once (its
\* timeout may fall on that very instant).  ran holds the elevators that
\* have run in the current instant.
Pending(persons) == \E p \in Persons : persons[p].event # NoElevator

PersonResume(p, r) ==
  /\ elev' = r.bk.elev
  /\ wait_list_up' = r.bk.up
  /\ wait_list_down' = r.bk.down
  /\ person' = [person EXCEPT ![p] = r.person]
  /\ ran' = IF Pending(person') THEN ran ELSE {}
  /\ UNCHANGED <<building, nfloors, now, last>>

PersonBoard(p) ==
  /\ person[p].pc = "await_open"
  /\ person[p].event # NoElevator
  /\ PersonResume(p, board(BankState, person[p], p))

PersonArrive(p) ==
  /\ person[p].pc = "await_arrive"
  /\ person[p].event # NoElevator
  /\ PersonResume(p, ride(BankState, person[p], p))

\* The elevator's process.  One step with the doors closed: direction :=
\* next_direction, location := next_location and, when the floor reached is a
\* stop, remove_stop, open_doors and the door-open event for everyone who
\* waits at that floor in the elevator's bank and for every passenger.
Suspended(p) == person[p].pc \in {"await_open", "await_arrive"} /\ person[p].event = NoElevator

Signalled(e, floor) ==
  {p \in Persons :
     /\ Suspended(p)
     /\ \/ p \in waiting_passengers(elev[e].bank, floor, PyInt(1))
        \/ p \in waiting_passengers(elev[e].bank, floor, PyInt(-1))
        \/ p \in elev[e].passengers}

ElevatorStep(e) ==
  /\ ~elev[e].doors_open
  /\ e \notin ran
  /\ \E first \in FirstStops(elev[e]) :
       LET turned == set_direction(elev[e], PyInt(next_direction(elev[e], first))).e
           moved == set_location(turned, next_location(turned)).e
       IN IF moved.location \in moved.stops
          THEN /\ elev' = [elev EXCEPT ![e] =
                             open_doors(remove_stop(moved, moved.location).e).e]
               /\ person' = [p \in Persons |->
                               IF p \in Signalled(e, moved.location)
                               THEN [person[p] EXCEPT !.event = e]
                               ELSE person[p]]
          ELSE /\ elev' = [elev EXCEPT ![e] = moved]
               /\ person' = person
  /\ ran' = IF Pending(person') THEN ran \cup {e} ELSE {}
  /\ UNCHANGED <<building, nfloors, wait_list_up, wait_list_down, now, last>>

\* the next step after a stop, some time later: close_doors
ElevatorClose(e) ==
  /\ elev[e].doors_open
  /\ e \notin ran
  /\ elev' = [elev EXCEPT ![e] = close_doors(elev[e]).e]
  /\ ran' = IF Pending(person) THEN ran \cup {e} ELSE {}
  /\ UNCHANGED <<building, nfloors, wait_list_up, wait_list_down, person, now, last>>

NextSim ==
  \/ \E p \in Persons : PersonStart(p)
  \/ \E p \in Persons : PersonDone(p)
  \/ \E p \in Persons : PersonCall(p)
  \/ \E p \in Persons : PersonBoard(p)
  \/ \E p \in Persons : PersonArrive(p)
  \/ \E e \in DOMAIN elev : ElevatorStep(e)
  \/ \E e \in DOMAIN elev : ElevatorClose(e)

SpecSim == InitSim /\ [][NextSim]_vars

\* The elevator's process alone, from any floor, direction and stop set, with
\* no stop added any more.  The process is scheduled again after every
\* timeout, so its steps are taken as long as they are possible.
InitDrive ==
  /\ nfloors \in 1..MaxFloors
  /\ \E location \in Floors, direction \in ValidDirections, stops \in SUBSET Floors :
       elev = <<[NewElevator(1, DefaultCapacity, location)
                   EXCEPT !.direction = direction, !.stops = stops]>>
  /\ wait_list_up = EmptyWaitLists
  /\ wait_list_down = EmptyWaitLists
  /\ person = [p \in Persons |-> NoPerson]
  /\ building = Built(nfloors)
  /\ ran = {}
  /\ now = 0
  /\ last = NoCall

NextDrive ==
  \/ \E e \in DOMAIN elev : ElevatorStep(e)
  \/ \E e \in DOMAIN elev : ElevatorClose(e)

SpecDrive == InitDrive /\ [][NextDrive]_vars /\ WF_vars(NextDrive)

\* The end-to-end scenario: a building of three floors, one bank with one
\* elevator that starts idle at floor 1, and one person whose schedule holds
\* a single event, for floor 3 at time 0.
ScenarioFloors == 3
ScenarioTarget == 3
ScenarioBank == 1
Traveller == 1

InitTrip ==
  /\ nfloors = ScenarioFloors
  /\ elev = <<NewElevator(ScenarioBank, DefaultCapacity, 1)>>
  /\ wait_list_up = EmptyWaitLists
  /\ wait_list_down = EmptyWaitLists
  /\ person = [p \in Persons |->
                 IF p = Traveller THEN PersonRecord("start", "random", NoFloor)
                 ELSE NoPerson]
  /\ building = Built(nfloors)
  /\ ran = {}
  /\ now = 0
  /\ last = NoCall

TripStart == PersonStart(Traveller)

\* next_event returns the one event of the schedule as long as no trip was
\* made, and None afterwards
TripCall ==
  /\ person[Traveller].trips = 0
  /\ PersonCallTo(Traveller, ScenarioTarget, <<ScenarioBank>>)

TripDone ==
  /\ person[Traveller].trips = 1
  /\ PersonDone(Traveller)

\* The clock advances when nothing is left to do at the current instant: no
\* event is pending and the person's process is suspended or has ended (its
\* own timeouts are of zero seconds).  However long the elevator's timeouts
\* are, a step of the elevator falls on some instant.
Tick ==
  /\ ~Pending(person)
  /\ person[Traveller].pc \notin {"start", "loop"}
  /\ now < MaxTime
  /\ now' = now + 1
  /\ UNCHANGED <<building, nfloors, elev, wait_list_up, wait_list_down, person, ran, last>>

TripPerson ==
  \/ TripStart
  \/ TripCall
  \/ TripDone
  \/ PersonBoard(Traveller)
  \/ PersonArrive(Traveller)

TripElevator ==
  \/ \E e \in DOMAIN elev : ElevatorStep(e)
  \/ \E e \in DOMAIN elev : ElevatorClose(e)

NextTrip ==
  \/ TripPerson
  \/ TripElevator
  \/ Tick

\* every process is scheduled again whenever it can run
SpecTrip ==
  InitTrip /\ [][NextTrip]_vars /\ WF_vars(TripPerson) /\ WF_vars(TripElevator)

(******************************* the Building *****************************)
\* Floor objects, constructed as Floor() or Floor(level=...), and any
\* sequence of add_floor calls with them or with something that is not a
\* Floor.
FloorObjects == 1..MaxFloorObjects
NotAFloor == 0
NotAFloorError == "TypeError: Expected param floor to be of type Floor"

InitBuilding ==
  /\ building \in {[floors |-> <<>>, level |-> level] :
                     level \in [FloorObjects -> {PyNone, PyInt(MaxFloorObjects)}]}
  /\ nfloors = 0
  /\ elev = <<>>
  /\ wait_list_up = EmptyWaitLists
  /\ wait_list_down = EmptyWaitLists
  /\ person = [p \in Persons |-> NoPerson]
  /\ ran = {}
  /\ now = 0
  /\ last = NoCall

AddFloor ==
  /\ Len(building.floors) < MaxAdds
  /\ \E floor \in FloorObjects \cup {NotAFloor} :
       /\ building' = IF floor = NotAFloor THEN building ELSE add_floor(building, floor)
       /\ last' = Called("add_floor", NoElevator, 0, 0, floor, PyNone,
                         IF floor = NotAFloor THEN NotAFloorError ELSE NoError)
  /\ UNCHANGED <<nfloors, elev, wait_list_up, wait_list_down, person, ran, now>>

NextBuilding == AddFloor

SpecBuilding == InitBuilding /\ [][NextBuilding]_vars

(************************ claims about the Elevator API ********************)
TheElevator == elev[ElevatorId]

\* C1: capacity invariant.  In every reachable state the number of
\* passengers is at most the capacity, and an enter call made with the doors
\* open succeeds and adds the person while fewer than capacity people are
\* aboard, and otherwise fails with the capacity error and leaves the
\* passenger set unchanged.
C1_CapacityInvariant ==
  /\ [](Cardinality(TheElevator.passengers) <= TheElevator.capacity)
  /\ [][(last'.op = "enter" /\ TheElevator.doors_open) =>
          IF Cardinality(TheElevator.passengers) < TheElevator.capacity
          THEN /\ last'.err = NoError
               /\ TheElevator'.passengers = TheElevator.passengers \cup {last'.person}
          ELSE /\ last'.err = CapacityExceeded
               /\ TheElevator'.passengers = TheElevator.passengers]_vars

\* two people are aboard an elevator of capacity two and a third was refused
C1_Witness ==
  /\ last.op = "enter"
  /\ last.err = CapacityExceeded
  /\ TheElevator.capacity = 2
  /\ Cardinality(TheElevator.passengers) = 2
  /\ last.person \notin TheElevator.passengers

\* C2: with the doors closed, enter and exit fail with the doors-closed
\* error, and no step that starts with the doors closed changes the
\* passenger set.
C2_ClosedDoorsFreezePassengers ==
  /\ [][(~TheElevator.doors_open /\ last'.op = "enter") =>
          last'.err = DoorsClosedEnter]_vars
  /\ [][(~TheElevator.doors_open /\ last'.op = "exit") =>
          last'.err = DoorsClosedExit]_vars
  /\ [][~TheElevator.doors_open =>
          TheElevator'.passengers = TheElevator.passengers]_vars

\* a passenger was refused to leave through the closed doors
C2_Witness ==
  /\ last.op = "exit"
  /\ last.err = DoorsClosedExit
  /\ last.person \in TheElevator.passengers
  /\ ~TheElevator.doors_open

\* C8, as claimed: up at the lowest floor and down at the highest floor,
\* also where the two coincide.
C8_BoundaryOverrideAsClaimed ==
  \A first \in FirstStops(TheElevator) :
    /\ TheElevator.location = 1 => next_direction(TheElevator, first) = 1
    /\ TheElevator.location = nfloors => next_direction(TheElevator, first) = -1

\* C8, amended: next_direction is up at the lowest floor, whatever the
\* direction and the stops, and down at the highest floor when that is not
\* also the lowest; in a building of one floor it is up.
C8_BoundaryOverride ==
  \A first \in FirstStops(TheElevator) :
    /\ TheElevator.location = 1 => next_direction(TheElevator, first) = 1
    /\ (TheElevator.location = nfloors /\ nfloors > 1) =>
         next_direction(TheElevator, first) = -1

\* at the top floor, travelling up, with a stop pending below
C8_Witness ==
  /\ nfloors > 1
  /\ TheElevator.location = nfloors
  /\ TheElevator.direction = PyInt(1)
  /\ 1 \in TheElevator.stops

\* C11: add_stop(floor) fails with the invalid-floor error and leaves the
\* stops unchanged when floor is not a valid floor; otherwise it succeeds and
\* the new stop set is the old one plus floor, so adding a floor that is
\* already a stop changes nothing.
C11_AddStop ==
  [][last'.op = "add_stop" =>
       IF last'.floor \in Floors
       THEN /\ last'.err = NoError
            /\ TheElevator'.stops = TheElevator.stops \cup {last'.floor}
            /\ last'.floor \in TheElevator.stops => TheElevator' = TheElevator
       ELSE /\ last'.err = InvalidFloor
            /\ TheElevator' = TheElevator]_vars

\* a floor above the top floor was refused while a stop is pending
C11_Witness ==
  /\ last.op = "add_stop"
  /\ last.err = InvalidFloor
  /\ last.floor = nfloors + 1
  /\ TheElevator.stops # {}
  /\ last.floor \notin TheElevator.stops

\* the stop nearest to the elevator, the lower one of two equally near
NearestStop(e) ==
  CHOOSE s \in e.stops :
    \A t \in e.stops :
      \/ distance(e, s) < distance(e, t)
      \/ distance(e, s) = distance(e, t) /\ s <= t

\* C15: idle direction selection.  For an idle elevator that is at neither
\* the lowest nor the highest floor, next_direction is 0 if it has no stops
\* or stands on a stop, and otherwise up when its nearest stop is above it
\* and down when its nearest stop is below it.
C15_IdleDirection ==
  \A first \in FirstStops(TheElevator) :
    (~Truthy(TheElevator.direction) /\ TheElevator.location \notin {1, nfloors}) =>
      next_direction(TheElevator, first) =
        IF TheElevator.stops = {} \/ TheElevator.location \in TheElevator.stops THEN 0
        ELSE IF NearestStop(TheElevator) > TheElevator.location THEN 1
        ELSE -1

\* C16: no premature reversal.  For a moving elevator at neither the lowest
\* nor the highest floor, next_direction is the current direction whenever
\* one step in that direction does not increase the distance to at least
\* one stop, and the opposite direction otherwise; so it is the current
\* direction whenever a stop lies strictly ahead.
C16_NoPrematureReversal ==
  LET e == TheElevator
      d == e.direction.v
      nearer(stop) == Abs(e.location + d - stop) <= Abs(e.location - stop)
      ahead(stop) == (stop - e.location) * d > 0
  IN \A first \in FirstStops(e) :
       (e.direction \in {PyInt(1), PyInt(-1)} /\ e.location \notin {1, nfloors}) =>
          /\ (\E stop \in e.stops : nearer(stop)) => next_direction(e, first) = d
          /\ (\A stop \in e.stops : ~nearer(stop)) => next_direction(e, first) = -d
          /\ (\E stop \in e.stops : ahead(stop)) => next_direction(e, first) = d

\* travelling up at the middle floor with a stop behind and a stop ahead
C16_Witness ==
  /\ nfloors = 3
  /\ TheElevator.location = 2
  /\ TheElevator.direction = PyInt(1)
  /\ TheElevator.stops = {1, 3}
  /\ last.op = "add_stop"

(************************* claims about the Building ***********************)
\* C14, as claimed: after any sequence of add_floor calls, also with the same
\* Floor object added more than once, the floor at position i has level i.
C14_LevelsContiguousAsClaimed ==
  \A i \in 1..Len(building.floors) :
    building.level[building.floors[i]] = PyInt(i)

\* C14, amended: the floor at position i has the level of the last position
\* that holds the same Floor object; so it has level i when no Floor object
\* was added twice.
C14_LevelIsLastPosition ==
  LET floors == building.floors
      positions(floor) == {j \in 1..Len(floors) : floors[j] = floor}
  IN /\ \A i \in 1..Len(floors) :
          /\ building.level[floors[i]].t = "int"
          /\ building.level[floors[i]].v \in positions(floors[i])
          /\ \A j \in positions(floors[i]) : j <= building.level[floors[i]].v
     /\ (\A i, j \in 1..Len(floors) : i # j => floors[i] # floors[j]) =>
          \A i \in 1..Len(floors) : building.level[floors[i]] = PyInt(i)

\* three different Floor objects were added, one of them constructed with a
\* level of its own
C14_Witness ==
  /\ Len(building.floors) = 3
  /\ \A i, j \in 1..3 : i # j => building.floors[i] # building.floors[j]
  /\ last.op = "add_floor"
  /\ last.err = NoError
  /\ building.level[building.floors[3]] = PyInt(3)
  /\ building.level[building.floors[1]] = PyInt(1)

(*********************** claims about the ElevatorBank API *****************)
\* the suitability of C7, in the claim's words
ClaimedSuitability(e, floor, direction) ==
  IF moving_away(e, floor) /\ distance(e, floor) # 0 THEN 1
  ELSE IF e.direction = direction \/ e.direction \in {PyInt(0), PyNone}
       THEN nfloors + 2 - distance(e, floor)
       ELSE nfloors + 1 - distance(e, floor)

\* C7: dispatch selection.  A call_to(floor, direction) on a bank that owns
\* an elevator adds floor to the stops of an elevator of that bank whose
\* suitability is maximal among the bank's elevators; with five floors and
\* two elevators, the one approaching in the requested direction at distance
\* 2 is chosen over the one at distance 1 that moves away.
C7_DispatchSelection ==
  [][(last'.op = "call_to" /\ elevators(last'.bank) # {}) =>
       LET chosen == last'.elevator
           floor == last'.floor
           direction == last'.direction
       IN /\ last'.err = NoError
          /\ chosen \in elevators(last'.bank)
          /\ elev'[chosen].stops = elev[chosen].stops \cup {floor}
          /\ \A other \in elevators(last'.bank) :
               ClaimedSuitability(elev[other], floor, direction)
                 <= ClaimedSuitability(elev[chosen], floor, direction)
          /\ \A e1, e2 \in elevators(last'.bank) :
               ( /\ elevators(last'.bank) = {e1, e2}
                 /\ nfloors = 5
                 /\ distance(elev[e1], floor) = 2
                 /\ elev[e1].direction = direction
                 /\ ~moving_away(elev[e1], floor)
                 /\ distance(elev[e2], floor) = 1
                 /\ moving_away(elev[e2], floor) ) => chosen = e1]_vars

\* the example of the claim: five floors, the chosen elevator approaches in
\* the requested direction from distance 2, the other leaves from distance 1
C7_Witness ==
  /\ nfloors = 5
  /\ last.op = "call_to"
  /\ last.err = NoError
  /\ \E e1, e2 \in elevators(last.bank) :
       /\ elevators(last.bank) = {e1, e2}
       /\ last.elevator = e1
       /\ distance(elev[e1], last.floor) = 2
       /\ elev[e1].direction = last.direction
       /\ ~moving_away(elev[e1], last.floor)
       /\ distance(elev[e2], last.floor) = 1
       /\ moving_away(elev[e2], last.floor)
       /\ last.floor \in elev[e1].stops

\* the first elevator of the scan order ids whose suitability, in the
\* claim's words, is the greatest of the bank
FirstOfTheBest(ids, floor, direction) ==
  LET score(i) == ClaimedSuitability(elev[ids[i]], floor, direction)
      best == CHOOSE i \in DOMAIN ids :
                /\ \A j \in DOMAIN ids : score(j) <= score(i)
                /\ \A j \in DOMAIN ids : j < i => score(j) < score(i)
  IN ids[best]

\* C18: dispatch tie-break.  At a call_to on a bank that owns an elevator,
\* for every order in which the elevators can be scanned the strategy
\* selects the first elevator of that order among those of greatest
\* suitability, and the elevator the call selected is that one for the
\* order it scanned.
C18_FirstOfTiesWins ==
  [][(last'.op = "call_to" /\ elevators(last'.bank) # {}) =>
       LET floor == last'.floor
           direction == last'.direction
       IN /\ \A ids \in Orders(elevators(last'.bank)) :
               /\ nearest_elevator_dispatch_strategy(
                     [i \in DOMAIN ids |-> elev[ids[i]]], ids, nfloors, floor, direction)
                     = FirstOfTheBest(ids, floor, direction)
               /\ call_to(BankState, ids, floor, direction).result
                     = FirstOfTheBest(ids, floor, direction)
          /\ \E ids \in Orders(elevators(last'.bank)) :
               last'.elevator = FirstOfTheBest(ids, floor, direction)]_vars

\* two idle elevators stand on the same floor and one of them got the call
C18_Witness ==
  /\ last.op = "call_to"
  /\ last.err = NoError
  /\ \E e1, e2 \in elevators(last.bank) :
       /\ e1 # e2
       /\ last.elevator = e1
       /\ elev[e1].location = elev[e2].location
       /\ elev[e1].direction = PyNone
       /\ elev[e2].direction = PyNone
       /\ ClaimedSuitability(elev[e1], last.floor, last.direction)
            = ClaimedSuitability(elev[e2], last.floor, last.direction)
       /\ last.floor \in elev[e1].stops
       /\ last.floor \notin elev[e2].stops

\* C20: a successful call_to(floor, direction) adds floor to the stops of the
\* elevator it selected and changes nothing else: not the stops of another
\* elevator, not the location, direction, doors or passengers of any
\* elevator, and no wait set.
C20_CallToFrame ==
  [][(last'.op = "call_to" /\ last'.err = NoError) =>
       LET chosen == last'.elevator
       IN /\ chosen \in elevators(last'.bank)
          /\ DOMAIN elev' = DOMAIN elev
          /\ elev'[chosen].stops = elev[chosen].stops \cup {last'.floor}
          /\ \A e \in DOMAIN elev :
               /\ e # chosen => elev'[e].stops = elev[e].stops
               /\ elev'[e].location = elev[e].location
               /\ elev'[e].direction = elev[e].direction
               /\ elev'[e].doors_open = elev[e].doors_open
               /\ elev'[e].passengers = elev[e].passengers
               /\ elev'[e].capacity = elev[e].capacity
               /\ elev'[e].bank = elev[e].bank
          /\ wait_list_up' = wait_list_up
          /\ wait_list_down' = wait_list_down]_vars

\* the elevator selected holds the stop of an earlier call and the new one,
\* the other elevator only the earlier one, and the person still waits
C20_Witness ==
  /\ last.op = "call_to"
  /\ last.err = NoError
  /\ last.floor # 1
  /\ \E e1, e2 \in elevators(last.bank) :
       /\ e1 # e2
       /\ last.elevator = e1
       /\ elev[e1].stops = {1, last.floor}
       /\ elev[e2].stops = {1}
  /\ wait_list_up[1][1] = {1}

\* C21: at a call_to for a floor of a bank that owns an elevator, the
\* suitability of every elevator of the bank is at least 1, above the score
\* -1 the scan starts with, and the call selects an elevator of the bank
\* without error; so the call fails for want of an elevator only on a bank
\* that owns none.
C21_NonEmptyBankDispatches ==
  /\ [][(last'.op = "call_to" /\ elevators(last'.bank) # {}) =>
          /\ \A e \in elevators(last'.bank) :
               /\ suitability(elev[e], nfloors, last'.floor, last'.direction) >= 1
               /\ suitability(elev[e], nfloors, last'.floor, last'.direction)
                    > NoResult.suitability
          /\ last'.elevator \in elevators(last'.bank)
          /\ last'.err = NoError]_vars
  /\ [][(last'.op = "call_to" /\ last'.err = NoneHasNoAddStop) =>
          elevators(last'.bank) = {}]_vars

\* every elevator of the bank was leaving the floor called, at the lowest
\* suitability, and one of them got the stop
C21_Witness ==
  /\ last.op = "call_to"
  /\ last.err = NoError
  /\ Cardinality(elevators(last.bank)) = 2
  /\ \A e \in elevators(last.bank) :
       /\ moving_away(elev[e], last.floor)
       /\ distance(elev[e], last.floor) # 0
       /\ suitability(elev[e], nfloors, last.floor, last.direction) = 1
  /\ last.elevator \in elevators(last.bank)
  /\ last.floor \in elev[last.elevator].stops

\* C9: a call_to on a bank that owns no elevator raises an error and leaves
\* every wait set and every elevator (so every stop set) as it was.
C9_EmptyBankCallFails ==
  [][(last'.op = "call_to" /\ elevators(last'.bank) = {}) =>
       /\ last'.err # NoError
       /\ last'.elevator = NoElevator
       /\ elev' = elev
       /\ wait_list_up' = wait_list_up
       /\ wait_list_down' = wait_list_down]_vars

\* the call failed on the empty bank while another bank owns elevators and
\* people wait
C9_Witness ==
  /\ last.op = "call_to"
  /\ elevators(last.bank) = {}
  /\ last.err = NoneHasNoAddStop
  /\ DOMAIN elev # {}
  /\ wait_list_up[1][1] # {}

\* C10, as claimed: wait fails, and changes no wait set, for every direction
\* other than +1 and -1.
C10_WaitRejectsNonUnitAsClaimed ==
  [][(last'.op = "wait" /\ last'.direction \notin {PyInt(1), PyInt(-1)}) =>
       /\ last'.err = InvalidDirection
       /\ wait_list_up' = wait_list_up
       /\ wait_list_down' = wait_list_down]_vars

\* C10, amended: wait fails with the invalid-direction error, and changes no
\* wait set, exactly for the directions 0 and none; every positive integer
\* (+1, 2) registers the person in the up set of the floor and every
\* negative one (-1, -3) in its down set, and no other wait set changes.
C10_WaitRejectsFalsyOnly ==
  [][last'.op = "wait" =>
       LET b == last'.bank
           p == last'.person
           floor == last'.floor
           direction == last'.direction
       IN IF direction \in {PyInt(0), PyNone}
          THEN /\ last'.err = InvalidDirection
               /\ wait_list_up' = wait_list_up
               /\ wait_list_down' = wait_list_down
          ELSE /\ last'.err = NoError
               /\ IF direction.v > 0
                  THEN /\ wait_list_up' =
                            [wait_list_up EXCEPT ![b][floor] = @ \cup {p}]
                       /\ wait_list_down' = wait_list_down
                  ELSE /\ wait_list_down' =
                            [wait_list_down EXCEPT ![b][floor] = @ \cup {p}]
                       /\ wait_list_up' = wait_list_up]_vars

\* a wait with direction 2 registered the person in an up set
C10_Witness ==
  /\ last.op = "wait"
  /\ last.direction = PyInt(2)
  /\ last.err = NoError
  /\ last.person \in wait_list_up[last.bank][last.floor]

(************************ claims about the Person cycle ********************)
\* the wait sets of bank b that hold person p, as (floor, list) pairs
WaitSetsOf(b, p) ==
  {<<floor, "up">> : floor \in {f \in Floors : p \in wait_list_up[b][f]}}
    \cup {<<floor, "down">> : floor \in {f \in Floors : p \in wait_list_down[b][f]}}

\* C3: wait-set retraction.  A person who has been resumed by the door-open
\* event and has boarded (and now rides) is in no bank's wait set for its
\* start floor and direction.
C3_RetractedFromEveryBank ==
  \A p \in Persons :
    person[p].pc = "await_arrive" =>
      \A b \in Banks :
        p \notin waiting_passengers(b, person[p].start, PyInt(person[p].direction))

\* C4: wait-set uniqueness.  A person is in at most one (floor, direction)
\* wait set of a bank.
C4_OneWaitSetPerBank ==
  \A b \in Banks, p \in Persons : Cardinality(WaitSetsOf(b, p)) <= 1

\* C5: the Person protocol never triggers a precondition error: no call made
\* by run() raises, so no person's process ends with an error.
C5_NoPreconditionError ==
  \A p \in Persons : person[p].pc # "failed" /\ person[p].err = NoError

\* the elevator a resumed person acts on: the one of the event when it
\* boards, the one it rides afterwards
ElevatorOf(p) ==
  IF person[p].pc = "await_open" THEN person[p].event ELSE person[p].elevator_agent

\* C12: a person alights only on an exact destination match.  No exit call
\* of the cycle finds the doors closed; a person who completes a trip left
\* an elevator that stood at the trip's end floor with its doors open, and
\* is now at that floor; a rider resumed while its elevator is at another
\* floor keeps riding.
C12_AlightsAtDestination ==
  /\ [](\A p \in Persons : person[p].err # DoorsClosedExit)
  /\ [][\A p \in Persons :
          (person[p].pc \in {"await_open", "await_arrive"} /\ person'[p].pc = "loop") =>
             /\ elev[ElevatorOf(p)].location = person[p].end
             /\ elev[ElevatorOf(p)].doors_open
             /\ person'[p].location = person[p].end]_vars
  /\ [][\A p \in Persons :
          ( /\ person[p].pc = "await_arrive"
            /\ person'[p] # person[p]
            /\ elev[person[p].elevator_agent].location # person[p].end ) =>
             /\ person'[p].pc = "await_arrive"
             /\ p \in elev'[person[p].elevator_agent].passengers]_vars

\* a rider bound for the top floor stays aboard an elevator that stands with
\* its doors open at the middle floor, where another person has alighted
C12_Witness ==
  \E p, q \in Persons :
    /\ person[p].pc = "await_arrive"
    /\ person[p].event = NoElevator
    /\ person[p].end = 3
    /\ elev[person[p].elevator_agent].location = 2
    /\ elev[person[p].elevator_agent].doors_open
    /\ p \in elev[person[p].elevator_agent].passengers
    /\ person[q].pc = "loop"
    /\ person[q].trips = 1
    /\ person[q].location = 2

\* C13: end-to-end liveness.  In the scenario the person calls the bank with
\* direction up, eventually boards, leaves the elevator only at floor 3, and
\* its process eventually ends after exactly one trip_complete call, made
\* with a trip of start level 1, end level 3, distance 2 and
\* travel_secs >= 0.
C13_EndToEnd ==
  /\ <>( /\ person[Traveller].pc = "await_open"
         /\ person[Traveller].direction = 1
         /\ Traveller \in waiting_passengers(ScenarioBank, 1, PyInt(1)) )
  /\ <>(Traveller \in elev[1].passengers)
  /\ [][(Traveller \in elev[1].passengers /\ Traveller \notin elev'[1].passengers) =>
          elev[1].location = 3]_vars
  /\ [](person[Traveller].trips <= 1)
  /\ [](person[Traveller].trips = 1 =>
          /\ person[Traveller].start = 1
          /\ person[Traveller].end = 3
          /\ person[Traveller].distance = 2
          /\ person[Traveller].travel_secs >= 0)
  /\ <>[]( /\ person[Traveller].pc = "done"
           /\ person[Traveller].trips = 1
           /\ person[Traveller].location = 3 )

\* the process has ended after a ride that took two seconds
C13_Witness ==
  /\ person[Traveller].pc = "done"
  /\ person[Traveller].trips = 1
  /\ person[Traveller].start = 1
  /\ person[Traveller].end = 3
  /\ person[Traveller].travel_secs = 2
  /\ elev[1].passengers = {}

(*********************** claims about the elevator's process ***************)
\* C6: stop liveness.  Under the loop that sets direction := next_direction,
\* moves to next_location and removes the stop it arrives on, from every
\* floor, direction and stop set, a floor that is a stop is eventually the
\* elevator's location.
C6_EveryStopReached ==
  \A floor \in 1..MaxFloors :
    (floor \in Floors /\ floor \in elev[ElevatorId].stops)
      ~> (elev[ElevatorId].location = floor)

\* an elevator whose direction is up or down
Moving(e) == e.direction \in {PyInt(1), PyInt(-1)}

\* C19: next_direction is 0 only for an elevator whose direction is 0 or
\* None and that is at neither boundary floor; for an elevator whose
\* direction is up or down it is up or down.  So under the process that
\* assigns direction := next_direction an elevator that moves never becomes
\* idle again, and with no stops it reverses its direction at every step
\* taken away from the boundary floors.
C19_NeverIdleAgain ==
  /\ [](\A first \in FirstStops(elev[ElevatorId]) :
          /\ next_direction(elev[ElevatorId], first) = 0 =>
               /\ ~Truthy(elev[ElevatorId].direction)
               /\ elev[ElevatorId].location \notin {1, nfloors}
          /\ Moving(elev[ElevatorId]) =>
               next_direction(elev[ElevatorId], first) \in {1, -1})
  /\ [][Moving(elev[ElevatorId]) => Moving(elev'[ElevatorId])]_vars
  /\ [][( /\ Moving(elev[ElevatorId])
          /\ ~elev[ElevatorId].doors_open
          /\ elev[ElevatorId].stops = {}
          /\ elev[ElevatorId].location \notin {1, nfloors} ) =>
           elev'[ElevatorId].direction = PyInt(-1 * elev[ElevatorId].direction.v)]_vars

\* the elevator came down to its last stop, at the middle floor: the doors
\* are open, no stop is left and its direction is still down
C19_Witness ==
  /\ nfloors = 3
  /\ elev[ElevatorId].location = 2
  /\ elev[ElevatorId].doors_open
  /\ elev[ElevatorId].stops = {}
  /\ elev[ElevatorId].direction = PyInt(-1)

\* C17: next_location is a valid floor: the current location when the
\* direction is 0 or None, and otherwise the floor one level away in the
\* direction, or the current one when that level is below 1 or above the
\* top; and the location of an elevator that its process moves to
\* next_location only is a valid floor in every reachable state.
C17_NextLocationValid ==
  LET e == elev[ElevatorId]
  IN /\ e.location \in Floors
     /\ next_location(e) \in Floors
     /\ e.direction \in {PyNone, PyInt(0)} => next_location(e) = e.location
     /\ e.direction = PyInt(1) =>
          next_location(e) = IF e.location = nfloors THEN nfloors ELSE e.location + 1
     /\ e.direction = PyInt(-1) =>
          next_location(e) = IF e.location = 1 THEN 1 ELSE e.location - 1

\* the elevator has moved up to the top floor and opened its doors there:
\* its direction is still up and its next location is the top floor
C17_Witness ==
  /\ nfloors = 3
  /\ elev[ElevatorId].location = 3
  /\ elev[ElevatorId].direction = PyInt(1)
  /\ elev[ElevatorId].doors_open
  /\ next_location(elev[ElevatorId]) = 3

\* the elevator, travelling down, has opened its doors on the stop at the
\* bottom floor while the stop at the top floor is still pending
C6_Witness ==
  /\ nfloors = 3
  /\ elev[ElevatorId].doors_open
  /\ elev[ElevatorId].location = 1
  /\ elev[ElevatorId].direction = PyInt(-1)
  /\ elev[ElevatorId].stops = {3}

====
